---- MODULE Spec2Model ----
(***************************************************************************)
(* Model of the stock trading system: src/bin/stocks.rs (the market        *)
(* authority: registry, price driver task, action consumer task) and       *)
(* src/bin/brokers.rs (the broker simulation: update producer, receiver,   *)
(* one spawned task per broker and update, log consumer).                  *)
(*                                                                         *)
(* Prices are f64 in the source; here they are fixed-point integers in     *)
(* hundredths (1800.00 is 180000).  Quantities are u32; the model checker  *)
(* computes with 32-bit signed integers, so a u32 is the pair <<hi, lo>>   *)
(* of its 16-bit halves and its arithmetic is done on the halves, exactly. *)
(***************************************************************************)
EXTENDS Integers, Sequences, FiniteSets, TLC

VARIABLES
    stocks,          \* StockMarket.stocks: id -> Stock
    overflowChecks,  \* build profile: TRUE = overflow-checks on (debug), FALSE = wrapping (release)
    held,            \* history: per instrument, units bought and not yet resold
    history,         \* history: one record per process_transaction call of the ledger driver
    marketOwner,     \* holder of Arc<Mutex<StockMarket>>
    chanOwner,       \* holder of Arc<Mutex<Channel>>
    pcPrice,         \* position of the task running simulate_price_changes
    pcConsumer,      \* position of the task running consume_actions
    actionQueue,     \* broker_action_queue: deliveries not yet taken by the consumer
    delivered,       \* number of deliveries the message bus has put on the queue
    streamOpen,      \* FALSE once the consumer stream has ended
    taken,           \* history: deliveries the consumer loop has taken, in order
    applied,         \* history: tags of the actions process_transaction was applied to, in order
    response,        \* the local `response` of consume_actions (NoResponse when none)
    responses,       \* what send_response has published, in order
    lastTable,       \* payload of the last stock table published by the price task
    ticks,           \* number of price ticks that moved a price
    stock_ch,        \* brokers.rs: the channel stock_tx -> stock_rx
    log_ch,          \* brokers.rs: the channel log_tx -> log_rx
    pcSim,           \* simulate_stock_updates: index of the next stock id; past the last, asleep
    produced,        \* number of updates simulate_stock_updates has sent
    tasks,           \* the spawned process_stock_update tasks that have not finished
    preferences,     \* Broker.preferences of each broker
    log_waiters,     \* the tasks suspended in tx.send(..).await on the full log channel,
                     \* in the order of their calls
    backlogged,      \* TRUE in the runs that start with both channels one short of full
    position,        \* history: per broker and stock id, the units of the buy orders the
                     \* broker has sent since its last liquidation message
    lastUpdate       \* history: per broker and stock id, the number of the update that
                     \* the last message sent on log_tx answers (0 when none)

brokerVars == <<stock_ch, log_ch, pcSim, produced, tasks, preferences, log_waiters,
               backlogged, position, lastUpdate>>

vars == <<stocks, overflowChecks, held, history, marketOwner, chanOwner, pcPrice,
          pcConsumer, actionQueue, delivered, streamOpen, taken, applied,
          response, responses, lastTable, ticks, brokerVars>>

-----------------------------------------------------------------------------
(* Bounds of the model *)

\* number of process_transaction calls the ledger driver makes
MaxTx == 3

\* number of deliveries the message bus makes to broker_action_queue
MaxDeliveries == 2

\* number of price ticks that move a price; later ticks draw a fluctuation of 0
MaxTicks == 1

\* number of updates simulate_stock_updates sends
MaxUpdates == 4

\* number of spawned process_stock_update tasks alive at a time: the receiver takes
\* the next update when the tasks it spawns fit
MaxLive == 3

\* number of messages waiting in a channel of brokers.rs: the runs explored are those
\* in which a sender is scheduled when fewer are waiting
MaxBacklog == 1

-----------------------------------------------------------------------------
(* u32 arithmetic *)

\* 2^16: a u32 is <<hi, lo>> with hi, lo in 0..Half-1, its value hi * Half + lo
Half == 65536

\* the u32 of a number below 2^31
U32(n) == <<n \div Half, n % Half>>

\* u32::MAX - 5
NearMax == <<Half - 1, Half - 6>>

\* the exact sum a + b (its hi part reaches Half and beyond when the sum leaves u32)
Plus(a, b) == <<a[1] + b[1] + (a[2] + b[2]) \div Half, (a[2] + b[2]) % Half>>

\* a >= b
Geq(a, b) == a[1] > b[1] \/ (a[1] = b[1] /\ a[2] >= b[2])

\* a > b
Gt(a, b) == ~Geq(b, a)

\* a - b, for a >= b
Minus(a, b) ==
    IF a[2] >= b[2] THEN <<a[1] - b[1], a[2] - b[2]>>
    ELSE <<a[1] - b[1] - 1, a[2] + Half - b[2]>>

\* a + b overflows u32
AddOverflows(a, b) == Plus(a, b)[1] >= Half

\* a + b as the release build computes it (wrapping)
WrappingAdd(a, b) == <<Plus(a, b)[1] % Half, Plus(a, b)[2]>>

-----------------------------------------------------------------------------
(* The registry *)

StockIds == {"G1", "S1", "P1"}

StockName(id) ==
    CASE id = "G1" -> "Gold"
      [] id = "S1" -> "Silver"
      [] id = "P1" -> "Petrol"

\* the stocks main creates: each field drawn from the range main draws it from
InitialStocks ==
    { [id \in StockIds |->
         CASE id = "G1" -> [name |-> "Gold", sell_price |-> 180000,
                            buy_price |-> 204000, available_stock |-> U32(g)]
           [] id = "S1" -> [name |-> "Silver", sell_price |-> 2900,
                            buy_price |-> sb, available_stock |-> U32(400)]
           [] id = "P1" -> [name |-> "Petrol", sell_price |-> 300,
                            buy_price |-> 360, available_stock |-> U32(250)]]
      : g \in {50, 149}, sb \in {2400, 3480} }

-----------------------------------------------------------------------------
(* Transactions and responses *)

\* an action naming an id that is in no registry
UnknownId == "X9"

TxIds == {"G1", "S1", UnknownId}

TxQuantities == {U32(10), U32(50), NearMax}

\* the well-formed StockTransaction values the model submits
Transactions ==
    { [action |-> a, id |-> i, quantity |-> q] :
        a \in {"buy", "sell"}, i \in TxIds, q \in TxQuantities }
    \cup { [action |-> "hold", id |-> "G1", quantity |-> U32(10)] }

NoResponse ==
    [kind |-> "none", quantity |-> U32(0), subject |-> "", stock |-> U32(0)]

\* format!("Buy successful: {} {} remaining: {}", quantity, name, available_stock)
BuySuccessful(q, name, avail) ==
    [kind |-> "Buy successful", quantity |-> q, subject |-> name, stock |-> avail]

\* format!("Buy failed: Insufficient stock for {} (Available: {})", name, available_stock)
BuyFailed(name, avail) ==
    [kind |-> "Buy failed: Insufficient stock", quantity |-> U32(0), subject |-> name,
     stock |-> avail]

\* format!("Sell successful: {} {} new total: {}", quantity, name, available_stock)
SellSuccessful(q, name, avail) ==
    [kind |-> "Sell successful", quantity |-> q, subject |-> name, stock |-> avail]

\* "Invalid action".to_string()
InvalidAction ==
    [kind |-> "Invalid action", quantity |-> U32(0), subject |-> "", stock |-> U32(0)]

\* format!("Stock with ID {} not found", transaction.id)
NotFound(id) ==
    [kind |-> "Stock not found", quantity |-> U32(0), subject |-> id, stock |-> U32(0)]

\* the outcome of a call that panicked: no value is returned
Panicked ==
    [kind |-> "panic: attempt to add with overflow", quantity |-> U32(0), subject |-> "",
     stock |-> U32(0)]

IsRejection(r) ==
    r.kind \in {"Buy failed: Insufficient stock", "Invalid action", "Stock not found"}

\* BuyArm with the comparison off by one: a buy of all that is available is refused
BuyArm_OffByOne(st, t) ==
    IF Gt(st[t.id].available_stock, t.quantity)
    THEN [stocks |-> [st EXCEPT ![t.id].available_stock = Minus(@, t.quantity)],
          response |-> BuySuccessful(t.quantity, st[t.id].name,
                                     Minus(st[t.id].available_stock, t.quantity))]
    ELSE [stocks |-> st,
          response |-> BuyFailed(st[t.id].name, st[t.id].available_stock)]

\* BuyArm where a refused buy still takes what is available
BuyArm_TakesOnReject(st, t) ==
    IF Geq(st[t.id].available_stock, t.quantity)
    THEN [stocks |-> [st EXCEPT ![t.id].available_stock = Minus(@, t.quantity)],
          response |-> BuySuccessful(t.quantity, st[t.id].name,
                                     Minus(st[t.id].available_stock, t.quantity))]
    ELSE [stocks |-> [st EXCEPT ![t.id].available_stock = U32(0)],
          response |-> BuyFailed(st[t.id].name, st[t.id].available_stock)]

\* the buy arm of process_transaction on the stock found
BuyArm(st, t) ==
    IF Geq(st[t.id].available_stock, t.quantity)
    THEN [stocks |-> [st EXCEPT ![t.id].available_stock = Minus(@, t.quantity)],
          response |-> BuySuccessful(t.quantity, st[t.id].name,
                                     Minus(st[t.id].available_stock, t.quantity))]
    ELSE [stocks |-> st,
          response |-> BuyFailed(st[t.id].name, st[t.id].available_stock)]

\* a sell arm that reports success and leaves available_stock as it is
SellArm_NoRestock(st, t, checks) ==
    [stocks |-> st,
     response |-> SellSuccessful(t.quantity, st[t.id].name, st[t.id].available_stock)]

\* the sell arm of process_transaction on the stock found; checks = overflow-checks
SellArm(st, t, checks) ==
    IF AddOverflows(st[t.id].available_stock, t.quantity) /\ checks
    THEN [stocks |-> st, response |-> Panicked]
    ELSE [stocks |-> [st EXCEPT ![t.id].available_stock = WrappingAdd(@, t.quantity)],
          response |-> SellSuccessful(t.quantity, st[t.id].name,
                           WrappingAdd(st[t.id].available_stock, t.quantity))]

\* process_transaction where an id that is not found falls back to the first stock
process_transaction_FallsBackToFirst(st, t, checks) ==
    LET u == IF t.id \in DOMAIN st THEN t ELSE [t EXCEPT !.id = "G1"] IN
    CASE u.action = "buy" -> BuyArm(st, u)
      [] u.action = "sell" -> SellArm(st, u, checks)
      [] OTHER -> [stocks |-> st, response |-> InvalidAction]

\* StockMarket::process_transaction: the registry after the call and the value returned
process_transaction(st, t, checks) ==
    IF t.id \in DOMAIN st
    THEN CASE t.action = "buy" -> BuyArm(st, t)
           [] t.action = "sell" -> SellArm(st, t, checks)
           [] OTHER -> [stocks |-> st, response |-> InvalidAction]
    ELSE [stocks |-> st, response |-> NotFound(t.id)]

\* units of the instrument bought and not yet resold, after transaction t returned r:
\* a successful buy adds its quantity, a successful sell takes its quantity off what
\* is held (it cannot resell more bought units than there are)
HeldAfter(h, t, r) ==
    CASE r.kind = "Buy successful" -> [h EXCEPT ![t.id] = Plus(@, t.quantity)]
      [] r.kind = "Sell successful" ->
            [h EXCEPT ![t.id] = IF Geq(@, t.quantity) THEN Minus(@, t.quantity)
                                ELSE U32(0)]
      [] OTHER -> h

-----------------------------------------------------------------------------
(* Values of the task variables when the tasks are not part of the run *)

NoHeld == [id \in StockIds |-> U32(0)]

Brokers == {"B1", "B2"}

\* the TradePreferences main gives each broker
Preferences ==
    [b \in Brokers |->
        IF b = "B1"
        THEN [max_price |-> 5000, min_price |-> 2000, order_amount |-> 10,
              target_profit |-> 8000, stop_loss_limit |-> 1500,
              interested_stocks |-> {"AAPL", "GOOGL"}]
        ELSE [max_price |-> 7000, min_price |-> 3000, order_amount |-> 15,
              target_profit |-> 10000, stop_loss_limit |-> 2500,
              interested_stocks |-> {"GOOGL"}]]

NoUpdate == [b \in {"B1", "B2"} |-> [id \in {"AAPL", "GOOGL", "AMZN"} |-> 0]]

NoPosition == [b \in Brokers |-> [id \in {"AAPL", "GOOGL", "AMZN"} |-> 0]]

NoTable == [id \in StockIds |-> [name |-> "", sell_price |-> 0, buy_price |-> 0,
                                 available_stock |-> U32(0)]]

-----------------------------------------------------------------------------
(* The market authority process: main spawns the price task and the consumer  *)
(* task; both lock the one Arc<Mutex<StockMarket>> before they do anything,   *)
(* and share the one Arc<Mutex<Channel>>.                                     *)

\* the deliveries the consumer stream yields: Ok(delivery) with a payload that
\* deserializes to a StockTransaction, Ok(delivery) with a payload that does not,
\* and Err(e)
NoTx == [action |-> "", id |-> "", quantity |-> U32(0)]

StreamTransactions ==
    { [action |-> "buy", id |-> "G1", quantity |-> U32(10)],
      [action |-> "buy", id |-> "G1", quantity |-> NearMax],
      [action |-> "sell", id |-> "S1", quantity |-> U32(10)],
      [action |-> "sell", id |-> "S1", quantity |-> NearMax],
      [action |-> "buy", id |-> UnknownId, quantity |-> U32(10)],
      [action |-> "hold", id |-> "G1", quantity |-> U32(10)] }

StreamItems ==
    { [kind |-> "action", tx |-> t] : t \in StreamTransactions }
    \cup { [kind |-> "malformed", tx |-> NoTx], [kind |-> "error", tx |-> NoTx] }

\* rng.gen_range(-0.05..0.05) for each stock, in percent
Fluctuations ==
    { [id \in StockIds |-> 0],
      [id \in StockIds |-> -5],
      [id \in StockIds |-> IF id = "G1" THEN 4 ELSE 0],
      [id \in StockIds |-> IF id = "S1" THEN -5 ELSE 4] }

ZeroFluctuation == [id \in StockIds |-> 0]

\* one pass of the for loop of simulate_price_changes over a stock
PriceMove(stock, percent) ==
    LET sell == stock.sell_price + (stock.sell_price * percent) \div 100
    IN  [stock EXCEPT !.sell_price = sell, !.buy_price = (sell * 120) \div 100]

Init ==
    /\ stocks \in InitialStocks
    /\ overflowChecks \in BOOLEAN
    /\ held = NoHeld
    /\ history = <<>>
    /\ marketOwner = "none"
    /\ chanOwner = "none"
    /\ pcPrice = "lock_market"
    /\ pcConsumer = "lock_market"
    /\ actionQueue = <<>>
    /\ delivered = 0
    /\ streamOpen = TRUE
    /\ taken = <<>>
    /\ applied = <<>>
    /\ response = NoResponse
    /\ responses = <<>>
    /\ lastTable = NoTable
    /\ ticks = 0
    /\ stock_ch = <<>>
    /\ log_ch = <<>>
    /\ pcSim = 1
    /\ produced = 0
    /\ tasks = {}
    /\ preferences = Preferences
    /\ log_waiters = <<>>
    /\ backlogged = FALSE
    /\ position = NoPosition
    /\ lastUpdate = NoUpdate

(* the message bus *)

\* a message arrives on broker_action_queue
Deliver(item) ==
    /\ streamOpen
    /\ delivered < MaxDeliveries
    /\ delivered' = delivered + 1
    /\ actionQueue' = Append(actionQueue,
                             [tag |-> delivered + 1, kind |-> item.kind, tx |-> item.tx])
    /\ UNCHANGED brokerVars
    /\ UNCHANGED <<stocks, overflowChecks, held, history, marketOwner, chanOwner,
                   pcPrice, pcConsumer, streamOpen, taken, applied, response,
                   responses, lastTable, ticks>>

\* the consumer is cancelled or the channel closes: the stream ends after what is queued
CloseStream ==
    /\ streamOpen
    /\ streamOpen' = FALSE
    /\ UNCHANGED brokerVars
    /\ UNCHANGED <<stocks, overflowChecks, held, history, marketOwner, chanOwner,
                   pcPrice, pcConsumer, actionQueue, delivered, taken, applied,
                   response, responses, lastTable, ticks>>

(* the price task: main, first tokio::spawn *)

\* stock_market_clone.lock().await
PriceLockMarket ==
    /\ pcPrice = "lock_market"
    /\ marketOwner = "none"
    /\ marketOwner' = "price"
    /\ pcPrice' = "tick"
    /\ UNCHANGED brokerVars
    /\ UNCHANGED <<stocks, overflowChecks, held, history, chanOwner, pcConsumer,
                   actionQueue, delivered, streamOpen, taken, applied, response,
                   responses, lastTable, ticks>>

\* simulate_price_changes: the for loop over the stocks, up to the call of
\* publish_stock_table
PriceTick(f) ==
    /\ pcPrice = "tick"
    /\ f # ZeroFluctuation => ticks < MaxTicks
    /\ ticks' = IF f # ZeroFluctuation THEN ticks + 1 ELSE ticks
    /\ stocks' = [id \in StockIds |-> PriceMove(stocks[id], f[id])]
    /\ pcPrice' = "publish_lock"
    /\ UNCHANGED brokerVars
    /\ UNCHANGED <<overflowChecks, held, history, marketOwner, chanOwner, pcConsumer,
                   actionQueue, delivered, streamOpen, taken, applied, response,
                   responses, lastTable>>

\* publish_stock_table: rabbitmq_channel.lock().await
PricePublishLock ==
    /\ pcPrice = "publish_lock"
    /\ chanOwner = "none"
    /\ chanOwner' = "price"
    /\ pcPrice' = "basic_publish"
    /\ UNCHANGED brokerVars
    /\ UNCHANGED <<stocks, overflowChecks, held, history, marketOwner, pcConsumer,
                   actionQueue, delivered, streamOpen, taken, applied, response,
                   responses, lastTable, ticks>>

\* publish_stock_table: basic_publish(..).await completes (Ok or Err), the guard is
\* dropped on return, and the task starts time::sleep
PricePublish(ok) ==
    /\ pcPrice = "basic_publish"
    /\ lastTable' = IF ok THEN stocks ELSE lastTable
    /\ chanOwner' = "none"
    /\ pcPrice' = "sleep"
    /\ UNCHANGED brokerVars
    /\ UNCHANGED <<stocks, overflowChecks, held, history, marketOwner, pcConsumer,
                   actionQueue, delivered, streamOpen, taken, applied, response,
                   responses, ticks>>

\* time::sleep(Duration::from_secs(5)).await completes
PriceWake ==
    /\ pcPrice = "sleep"
    /\ pcPrice' = "tick"
    /\ UNCHANGED brokerVars
    /\ UNCHANGED <<stocks, overflowChecks, held, history, marketOwner, chanOwner,
                   pcConsumer, actionQueue, delivered, streamOpen, taken, applied,
                   response, responses, lastTable, ticks>>

PriceTask ==
    \/ PriceLockMarket
    \/ \E f \in Fluctuations : PriceTick(f)
    \/ PricePublishLock
    \/ \E ok \in BOOLEAN : PricePublish(ok)
    \/ PriceWake

(* the consumer task: main, second tokio::spawn *)

\* stock_market_clone.lock().await
ConsumerLockMarket ==
    /\ pcConsumer = "lock_market"
    /\ marketOwner = "none"
    /\ marketOwner' = "consumer"
    /\ pcConsumer' = "lock_channel"
    /\ UNCHANGED brokerVars
    /\ UNCHANGED <<stocks, overflowChecks, held, history, chanOwner, pcPrice,
                   actionQueue, delivered, streamOpen, taken, applied, response,
                   responses, lastTable, ticks>>

\* consume_actions: rabbitmq_channel.lock().await; the guard channel_locked lives to
\* the end of consume_actions
ConsumerLockChannel ==
    /\ pcConsumer = "lock_channel"
    /\ chanOwner = "none"
    /\ chanOwner' = "consumer"
    /\ pcConsumer' = "basic_consume"
    /\ UNCHANGED brokerVars
    /\ UNCHANGED <<stocks, overflowChecks, held, history, marketOwner, pcPrice,
                   actionQueue, delivered, streamOpen, taken, applied, response,
                   responses, lastTable, ticks>>

\* consume_actions: basic_consume(..).await.expect(..): an Err panics, and the
\* unwinding drops both guards
ConsumerBasicConsume(ok) ==
    /\ pcConsumer = "basic_consume"
    /\ pcConsumer' = IF ok THEN "next" ELSE "panicked"
    /\ chanOwner' = IF ok THEN chanOwner ELSE "none"
    /\ marketOwner' = IF ok THEN marketOwner ELSE "none"
    /\ UNCHANGED brokerVars
    /\ UNCHANGED <<stocks, overflowChecks, held, history, pcPrice, actionQueue,
                   delivered, streamOpen, taken, applied, response, responses,
                   lastTable, ticks>>

\* the loop body with a payload that does not deserialize handled like an action
ConsumerTake_AppliesMalformed ==
    /\ pcConsumer = "next"
    /\ actionQueue # <<>>
    /\ LET d == Head(actionQueue)
           r == process_transaction(stocks, d.tx, overflowChecks)
       IN  /\ actionQueue' = Tail(actionQueue)
           /\ taken' = Append(taken, d)
           /\ IF d.kind \in {"action", "malformed"}
              THEN /\ stocks' = r.stocks
                   /\ held' = HeldAfter(held, d.tx, r.response)
                   /\ applied' = Append(applied, d.tag)
                   /\ response' = r.response
                   /\ pcConsumer' = IF r.response = Panicked THEN "panicked"
                                    ELSE "send_response"
                   /\ chanOwner' = IF r.response = Panicked THEN "none" ELSE chanOwner
                   /\ marketOwner' = IF r.response = Panicked THEN "none"
                                     ELSE marketOwner
              ELSE UNCHANGED <<stocks, held, applied, response, pcConsumer, chanOwner,
                               marketOwner>>
    /\ UNCHANGED brokerVars
    /\ UNCHANGED <<overflowChecks, history, pcPrice, delivered, streamOpen, responses,
                   lastTable, ticks>>

\* consume_actions: consumer_stream.next().await yields Some(delivery), and the body of
\* the while loop up to the call of send_response
ConsumerTake ==
    /\ pcConsumer = "next"
    /\ actionQueue # <<>>
    /\ LET d == Head(actionQueue)
           r == process_transaction(stocks, d.tx, overflowChecks)
       IN  /\ actionQueue' = Tail(actionQueue)
           /\ taken' = Append(taken, d)
           /\ IF d.kind = "action"
              THEN /\ stocks' = r.stocks
                   /\ held' = HeldAfter(held, d.tx, r.response)
                   /\ applied' = Append(applied, d.tag)
                   /\ response' = r.response
                   /\ pcConsumer' = IF r.response = Panicked THEN "panicked"
                                    ELSE "send_response"
                   /\ chanOwner' = IF r.response = Panicked THEN "none" ELSE chanOwner
                   /\ marketOwner' = IF r.response = Panicked THEN "none"
                                     ELSE marketOwner
              ELSE UNCHANGED <<stocks, held, applied, response, pcConsumer, chanOwner,
                               marketOwner>>
    /\ UNCHANGED brokerVars
    /\ UNCHANGED <<overflowChecks, history, pcPrice, delivered, streamOpen, responses,
                   lastTable, ticks>>

\* consume_actions: consumer_stream.next().await yields None: the loop and the task
\* end, and both guards are dropped
ConsumerStreamEnd ==
    /\ pcConsumer = "next"
    /\ actionQueue = <<>>
    /\ ~streamOpen
    /\ pcConsumer' = "done"
    /\ chanOwner' = "none"
    /\ marketOwner' = "none"
    /\ UNCHANGED brokerVars
    /\ UNCHANGED <<stocks, overflowChecks, held, history, pcPrice, actionQueue,
                   delivered, streamOpen, taken, applied, response, responses,
                   lastTable, ticks>>

\* send_response: rabbitmq_channel.lock().await, then basic_publish(..).await (Ok or
\* Err) and the return to the loop.  While the channel mutex is held the task stays
\* suspended in lock().await.
send_response(ok) ==
    /\ pcConsumer \in {"send_response", "await_channel_lock"}
    /\ IF chanOwner = "none"
       THEN /\ responses' = IF ok
                            THEN Append(responses, [tag |-> applied[Len(applied)],
                                                    response |-> response])
                            ELSE responses
            /\ pcConsumer' = "next"
       ELSE /\ pcConsumer' = "await_channel_lock"
            /\ UNCHANGED responses
    /\ UNCHANGED brokerVars
    /\ UNCHANGED <<stocks, overflowChecks, held, history, marketOwner, chanOwner,
                   pcPrice, actionQueue, delivered, streamOpen, taken, applied,
                   response, lastTable, ticks>>

ConsumerTask ==
    \/ ConsumerLockMarket
    \/ ConsumerLockChannel
    \/ \E ok \in BOOLEAN : ConsumerBasicConsume(ok)
    \/ ConsumerTake
    \/ ConsumerStreamEnd
    \/ \E ok \in BOOLEAN : send_response(ok)

MessageBus ==
    \/ \E item \in StreamItems : Deliver(item)
    \/ CloseStream

Next == PriceTask \/ ConsumerTask \/ MessageBus

Spec == Init /\ [][Next]_vars

\* the tokio runtime runs every task that is ready
FairSpec == Spec /\ WF_vars(PriceTask) /\ WF_vars(ConsumerTask)

-----------------------------------------------------------------------------
(* Properties of the market authority process *)

Tags == 1..MaxDeliveries

\* the action with tag n has arrived on the queue (taken already or not)
ArrivedAction(n) ==
    \/ \E i \in 1..Len(actionQueue) :
          actionQueue[i].tag = n /\ actionQueue[i].kind = "action"
    \/ \E i \in 1..Len(taken) : taken[i].tag = n /\ taken[i].kind = "action"

AppliedAt(n) == {i \in 1..Len(applied) : applied[i] = n}

RespondedAt(n) == {i \in 1..Len(responses) : responses[i].tag = n}

\* C2: every well-formed action the consumer loop receives is eventually followed by
\* the emission of exactly one response for it, and the loop goes on to the next
\* delivery.
C2_EveryActionAnswered ==
    \A n \in Tags :
        (pcConsumer = "send_response" /\ AppliedAt(n) # {})
            ~> (Cardinality(RespondedAt(n)) = 1 /\ pcConsumer = "next")

\* C6: of two actions, the one that arrived first is applied to the registry first and
\* its response is emitted first.
C6_Fifo ==
    \A m, n \in Tags :
        (m < n /\ ArrivedAction(m) /\ ArrivedAction(n))
            ~> (/\ AppliedAt(m) # {} /\ AppliedAt(n) # {}
                /\ \A i \in AppliedAt(m), j \in AppliedAt(n) : i < j
                /\ RespondedAt(m) # {} /\ RespondedAt(n) # {}
                /\ \A i \in RespondedAt(m), j \in RespondedAt(n) : i < j)

\* C7: under fair scheduling the price task keeps publishing, queued actions keep being
\* drained, and neither task waits for the market lock forever.
C7_BothTasksProgress ==
    /\ []<>(pcPrice = "basic_publish")
    /\ (actionQueue # <<>>) ~> (actionQueue = <<>>)
    /\ []<>(pcPrice # "lock_market")
    /\ []<>(pcConsumer # "lock_market")

\* C8: a task suspended on the queue receive, on a publish or in the sleep between
\* ticks holds neither the market mutex nor the channel mutex.
C8_NoLockAcrossSuspension ==
    /\ pcPrice \in {"basic_publish", "sleep"} =>
          marketOwner # "price" /\ chanOwner # "price"
    /\ pcConsumer = "next" =>
          marketOwner # "consumer" /\ chanOwner # "consumer"

\* the step takes from the queue an action that names an id not in the registry
TakesUnknown ==
    /\ pcConsumer = "next" /\ actionQueue # <<>>
    /\ Len(taken') = Len(taken) + 1
    /\ Head(actionQueue).kind = "action"
    /\ Head(actionQueue).tx.id \notin StockIds

\* C9: an action naming an id that is not in the registry gets the not-found response,
\* changes no price and no inventory, and is not put back on the queue nor applied a
\* second time.
C9_UnknownInstrument ==
    /\ [][TakesUnknown =>
            /\ response' = NotFound(Head(actionQueue).tx.id)
            /\ stocks' = stocks /\ held' = held
            /\ actionQueue' = Tail(actionQueue)
            /\ pcConsumer' = "send_response"]_vars
    /\ [](\A i \in 1..Len(taken) :
            (taken[i].kind = "action" /\ taken[i].tx.id \notin StockIds) =>
                /\ Cardinality(AppliedAt(taken[i].tag)) = 1
                /\ \A j \in 1..Len(actionQueue) : actionQueue[j].tag # taken[i].tag
                /\ \A j \in 1..Len(taken) : taken[j].tag = taken[i].tag => j = i)

\* the consumer has taken an action naming an unknown id and holds the not-found
\* response for it
C9_Witness ==
    /\ taken # <<>>
    /\ taken[Len(taken)].kind = "action"
    /\ taken[Len(taken)].tx.id = UnknownId
    /\ response = NotFound(UnknownId)
    /\ pcConsumer = "await_channel_lock"

-----------------------------------------------------------------------------
(* The ledger driver: process_transaction applied to every sequence of at     *)
(* most MaxTx transactions, starting from a registry main can create.         *)

LedgerInit ==
    /\ stocks \in InitialStocks
    /\ overflowChecks \in BOOLEAN
    /\ held = NoHeld
    /\ history = <<>>
    /\ marketOwner = "consumer"
    /\ chanOwner = "consumer"
    /\ pcPrice = "lock_market"
    /\ pcConsumer = "next"
    /\ actionQueue = <<>>
    /\ delivered = 0
    /\ streamOpen = TRUE
    /\ taken = <<>>
    /\ applied = <<>>
    /\ response = NoResponse
    /\ responses = <<>>
    /\ lastTable = NoTable
    /\ ticks = 0
    /\ stock_ch = <<>>
    /\ log_ch = <<>>
    /\ pcSim = 1
    /\ produced = 0
    /\ tasks = {}
    /\ preferences = Preferences
    /\ log_waiters = <<>>
    /\ backlogged = FALSE
    /\ position = NoPosition
    /\ lastUpdate = NoUpdate

\* one call self.process_transaction(t); a call that panicked is the last one
LedgerCall(t) ==
    /\ Len(history) < MaxTx
    /\ history # <<>> => history[Len(history)].response # Panicked
    /\ LET r == process_transaction(stocks, t, overflowChecks) IN
         /\ stocks' = r.stocks
         /\ response' = r.response
         /\ held' = HeldAfter(held, t, r.response)
         /\ history' = Append(history,
                [tx |-> t, response |-> r.response, before |-> stocks,
                 after |-> r.stocks, heldBefore |-> held,
                 heldAfter |-> HeldAfter(held, t, r.response)])
    /\ UNCHANGED brokerVars
    /\ UNCHANGED <<overflowChecks, marketOwner, chanOwner, pcPrice, pcConsumer,
                   actionQueue, delivered, streamOpen, taken, applied, responses,
                   lastTable, ticks>>

LedgerNext == \E t \in Transactions : LedgerCall(t)

LedgerSpec == LedgerInit /\ [][LedgerNext]_vars

Calls == 1..Len(history)

\* C1: conservation: after every sequence of buys and sells, available_quantity +
\* held_quantity of every instrument equals its value before the sequence.
C1_Conservation ==
    \A i \in Calls : \A id \in StockIds :
        Plus(history[i].after[id].available_stock, history[i].heldAfter[id])
          = Plus(history[1].before[id].available_stock, history[1].heldBefore[id])

\* C3: a sell of more units than are held is rejected and leaves the inventory
\* unchanged; a sell of at most the held units moves them from held to available.
C3_SellNeedsHoldings ==
    \A i \in Calls :
        LET c == history[i] IN
        (c.tx.action = "sell" /\ c.tx.id \in StockIds) =>
            IF Gt(c.tx.quantity, c.heldBefore[c.tx.id])
            THEN IsRejection(c.response) /\ c.after = c.before
                 /\ c.heldAfter = c.heldBefore
            ELSE /\ c.after[c.tx.id].available_stock
                       = Plus(c.before[c.tx.id].available_stock, c.tx.quantity)
                 /\ c.heldAfter[c.tx.id] = Minus(c.heldBefore[c.tx.id], c.tx.quantity)

\* C4: a buy on a known instrument is rejected exactly when its quantity exceeds
\* what is available; otherwise available decreases by the quantity, held increases
\* by it and the response reports the resulting available stock.
C4_Buy ==
    \A i \in Calls :
        LET c == history[i]
            b == c.before[c.tx.id].available_stock
        IN  (c.tx.action = "buy" /\ c.tx.id \in StockIds) =>
            /\ (c.response.kind = "Buy failed: Insufficient stock")
                  <=> Gt(c.tx.quantity, b)
            /\ Geq(b, c.tx.quantity) =>
                 /\ c.response = BuySuccessful(c.tx.quantity, StockName(c.tx.id),
                                               Minus(b, c.tx.quantity))
                 /\ c.after = [c.before EXCEPT
                                  ![c.tx.id].available_stock = Minus(b, c.tx.quantity)]
                 /\ Plus(c.after[c.tx.id].available_stock, c.tx.quantity) = b
                 /\ c.response.stock = c.after[c.tx.id].available_stock
                 /\ c.heldAfter = [c.heldBefore EXCEPT
                                      ![c.tx.id] = Plus(@, c.tx.quantity)]

\* a buy of exactly what is available was accepted and a later buy was refused
C4_Witness ==
    /\ \E i \in Calls :
          /\ history[i].tx.action = "buy" /\ history[i].tx.id \in StockIds
          /\ history[i].tx.quantity = history[i].before[history[i].tx.id].available_stock
          /\ history[i].response.kind = "Buy successful"
    /\ \E i \in Calls :
          /\ history[i].tx.action = "buy" /\ history[i].tx.id \in StockIds
          /\ history[i].response.kind = "Buy failed: Insufficient stock"

\* C5: a rejected operation leaves the whole registry unchanged, and the same buy of
\* more than is available, submitted twice in a row, is rejected twice with the same
\* response and leaves the registry as it was before the first.
C5_IdempotentRejection ==
    /\ \A i \in Calls :
          IsRejection(history[i].response) =>
              history[i].after = history[i].before
    /\ \A i \in Calls :
          (/\ i + 1 \in Calls
           /\ history[i + 1].tx = history[i].tx
           /\ history[i].tx.action = "buy" /\ history[i].tx.id \in StockIds
           /\ Gt(history[i].tx.quantity,
                 history[i].before[history[i].tx.id].available_stock)) =>
              /\ IsRejection(history[i].response)
              /\ history[i + 1].response = history[i].response
              /\ history[i + 1].after = history[i].before

\* the same over-sized buy was submitted twice in a row, after the registry had changed
C5_Witness ==
    \E i \in Calls :
        /\ i > 1 /\ i + 1 \in Calls
        /\ history[i + 1].tx = history[i].tx
        /\ history[i].tx.action = "buy" /\ history[i].tx.id \in StockIds
        /\ Gt(history[i].tx.quantity,
              history[i].before[history[i].tx.id].available_stock)
        /\ history[i].before # history[1].before

-----------------------------------------------------------------------------
(* The broker simulation: src/bin/brokers.rs *)

marketVars == <<stocks, overflowChecks, held, history, marketOwner, chanOwner,
                pcPrice, pcConsumer, actionQueue, delivered, streamOpen, taken,
                applied, response, responses, lastTable, ticks>>

\* mpsc::channel(32), for both channels
Capacity == 32

\* stock_ids of main, in order
stock_ids == <<"AAPL", "GOOGL", "AMZN">>

\* rng.gen_range(10.0..100.0), the draws per stock id
UpdatePrices(id) ==
    CASE id = "AAPL" -> {1200, 5000, 8500}
      [] id = "GOOGL" -> {1200, 3000}
      [] OTHER -> {3000}

\* a message on log_tx: the fields the format strings print
Message(b, stock, kind, amount) ==
    [broker |-> b, stock_id |-> stock.id, price |-> stock.price, kind |-> kind,
     amount |-> amount]

\* a broker interested in every stock
Interested_InAll(b, stock) == TRUE

\* process_stock_update: self.preferences.interested_stocks.contains(&stock.id)
Interested(b, stock) == stock.id \in preferences[b].interested_stocks

\* the first if/else with exclusive bounds
EntryMessage_ExclusiveBounds(b, stock) ==
    IF stock.price < preferences[b].max_price /\ stock.price > preferences[b].min_price
    THEN Message(b, stock, "Placing order", preferences[b].order_amount)
    ELSE Message(b, stock, "No action", 0)

\* process_stock_update: the first if/else, the message it sends
EntryMessage(b, stock) ==
    IF stock.price <= preferences[b].max_price /\ stock.price >= preferences[b].min_price
    THEN Message(b, stock, "Placing order", preferences[b].order_amount)
    ELSE Message(b, stock, "No action", 0)

\* the second if/else if with its two branches in the other order
LiquidationKind_StopLossFirst(b, stock) ==
    IF stock.price <= preferences[b].stop_loss_limit
    THEN "Reached stop loss limit, selling"
    ELSE IF stock.price >= preferences[b].target_profit
         THEN "Reached target profit, selling"
         ELSE "none"

\* process_stock_update: the second if/else if, the kind of message it sends ("none"
\* when it sends nothing)
LiquidationKind(b, stock) ==
    IF stock.price >= preferences[b].target_profit
    THEN "Reached target profit, selling"
    ELSE IF stock.price <= preferences[b].stop_loss_limit
         THEN "Reached stop loss limit, selling"
         ELSE "none"

\* a bounded channel that takes one message more than its capacity
HasRoom_OneMore(ch) == Len(ch) <= Capacity

\* tx.send(..).await on a bounded channel completes at once when the channel holds
\* fewer messages than its capacity
HasRoom(ch) == Len(ch) < Capacity

\* the runs explored: from the start of main a sender is scheduled when fewer than
\* MaxBacklog messages wait in its channel; from the backlogged start a sender is
\* scheduled whenever it is ready and a receiver when its channel is full
SenderScheduled(ch) == backlogged \/ Len(ch) < MaxBacklog

ReceiverScheduled(ch) == backlogged => Len(ch) = Capacity

\* the number of updates sent before the backlogged start
BackloggedUpdates == 2 * (Capacity - 1)

\* the n-th update of simulate_stock_updates in the run to the backlogged start: ids in
\* the order of stock_ids; the prices are draws of UpdatePrices
BackloggedStock(n) ==
    LET id == stock_ids[((n - 1) % Len(stock_ids)) + 1]
        round == (n - 1) \div Len(stock_ids)
    IN  [id |-> id,
         price |-> IF n < Capacity THEN (IF id = "AAPL" THEN 5000 ELSE 3000)
                   ELSE CASE id = "AAPL" -> IF round % 2 = 0 THEN 5000 ELSE 8500
                          [] id = "GOOGL" -> IF round % 2 = 0 THEN 1200 ELSE 3000
                          [] OTHER -> 3000,
         update |-> n]

\* the prices explored for the n-th update, of stock id: from the start of main every
\* draw of UpdatePrices, from the backlogged start one draw
Draws(id, n) == IF backlogged THEN {BackloggedStock(n).price} ELSE UpdatePrices(id)

\* the message the next tx.send of task t sends
PendingMessage(t) ==
    IF t.pc \in {"start", "entry_wait"}
    THEN EntryMessage(t.broker, t.stock)
    ELSE Message(t.broker, t.stock, LiquidationKind(t.broker, t.stock), 0)

\* what is left of task t when its pending tx.send has completed: after the first
\* send the second if, after the second send nothing
AfterSend(t) ==
    IF t.pc \in {"start", "entry_wait"} THEN {[t EXCEPT !.pc = "liquidation"]} ELSE {}

\* the units a broker has ordered and not liquidated, after it has sent message m: a
\* buy order adds its amount, a liquidation message sells all of them
PositionAfter(pos, m) ==
    CASE m.kind = "Placing order" ->
            [pos EXCEPT ![m.broker][m.stock_id] = @ + m.amount]
      [] m.kind \in {"Reached target profit, selling",
                     "Reached stop loss limit, selling"} ->
            [pos EXCEPT ![m.broker][m.stock_id] = 0]
      [] OTHER -> pos

\* task t suspended in tx.send(..).await
Suspended(t) ==
    [t EXCEPT !.pc = IF t.pc = "start" THEN "entry_wait" ELSE "liquidation_wait"]

\* the state after main has created the channels and the brokers with preferences p,
\* and spawned the tasks
BrokerStart(p) ==
    /\ stocks = NoTable
    /\ overflowChecks = FALSE
    /\ held = NoHeld
    /\ history = <<>>
    /\ marketOwner = "none"
    /\ chanOwner = "none"
    /\ pcPrice = "lock_market"
    /\ pcConsumer = "lock_market"
    /\ actionQueue = <<>>
    /\ delivered = 0
    /\ streamOpen = TRUE
    /\ taken = <<>>
    /\ applied = <<>>
    /\ response = NoResponse
    /\ responses = <<>>
    /\ lastTable = NoTable
    /\ ticks = 0
    /\ stock_ch = <<>>
    /\ log_ch = <<>>
    /\ pcSim = 1
    /\ produced = 0
    /\ tasks = {}
    /\ preferences = p
    /\ log_waiters = <<>>
    /\ backlogged = FALSE
    /\ position = NoPosition
    /\ lastUpdate = NoUpdate

BrokerInit == BrokerStart(Preferences)

\* simulate_stock_updates: one pass of the for loop, tx.send(stock).await
SimSend ==
    /\ pcSim \in 1..Len(stock_ids)
    /\ produced < MaxUpdates + (IF backlogged THEN BackloggedUpdates ELSE 0)
    /\ HasRoom(stock_ch) /\ SenderScheduled(stock_ch)
    /\ \E price \in Draws(stock_ids[pcSim], produced + 1) :
          stock_ch' = Append(stock_ch, [id |-> stock_ids[pcSim], price |-> price,
                                        update |-> produced + 1])
    /\ produced' = produced + 1
    /\ pcSim' = pcSim + 1
    /\ UNCHANGED <<log_ch, tasks, log_waiters, position, lastUpdate>>
    /\ UNCHANGED <<preferences, backlogged, marketVars>>

\* simulate_stock_updates: time::sleep(Duration::from_secs(5)).await completes
SimWake ==
    /\ pcSim = Len(stock_ids) + 1
    /\ pcSim' = 1
    /\ UNCHANGED <<stock_ch, log_ch, produced, tasks, log_waiters, position, lastUpdate>>
    /\ UNCHANGED <<preferences, backlogged, marketVars>>

\* stock_price_receiver: rx.recv().await yields a stock, and the for loop spawns one
\* task per broker
ReceiverSpawn ==
    /\ stock_ch # <<>> /\ ReceiverScheduled(stock_ch)
    /\ Cardinality(tasks) + Cardinality(Brokers) <= MaxLive
    /\ stock_ch' = Tail(stock_ch)
    /\ tasks' = tasks \cup { [broker |-> b, stock |-> Head(stock_ch), pc |-> "start"] :
                             b \in Brokers }
    /\ UNCHANGED <<log_ch, pcSim, produced, log_waiters, position, lastUpdate>>
    /\ UNCHANGED <<preferences, backlogged, marketVars>>

\* process_stock_update on a stock the broker is not interested in: the task ends
BrokerIgnore(t) ==
    /\ t.pc = "start"
    /\ ~Interested(t.broker, t.stock)
    /\ tasks' = tasks \ {t}
    /\ UNCHANGED <<stock_ch, log_ch, pcSim, produced, log_waiters, position,
                   lastUpdate>>
    /\ UNCHANGED <<preferences, backlogged, marketVars>>

\* a tx.send(..).await of task t on log_tx: the message is queued when the channel has
\* room, else the task is suspended behind the tasks already waiting
LogSend(t) ==
    IF HasRoom(log_ch)
    THEN /\ log_ch' = Append(log_ch, PendingMessage(t))
         /\ lastUpdate' = [lastUpdate EXCEPT ![t.broker][t.stock.id] = t.stock.update]
         /\ position' = PositionAfter(position, PendingMessage(t))
         /\ tasks' = (tasks \ {t}) \cup AfterSend(t)
         /\ UNCHANGED log_waiters
    ELSE /\ tasks' = (tasks \ {t}) \cup {Suspended(t)}
         /\ log_waiters' = Append(log_waiters, Suspended(t))
         /\ UNCHANGED <<log_ch, position, lastUpdate>>

\* process_stock_update: the first tx.send(..).await
BrokerEntry(t) ==
    /\ t.pc = "start"
    /\ Interested(t.broker, t.stock)
    /\ SenderScheduled(log_ch)
    /\ LogSend(t)
    /\ UNCHANGED <<stock_ch, pcSim, produced>>
    /\ UNCHANGED <<preferences, backlogged, marketVars>>

\* process_stock_update: the second tx.send(..).await, and the end of the task
BrokerLiquidate(t) ==
    /\ t.pc = "liquidation"
    /\ LiquidationKind(t.broker, t.stock) # "none"
    /\ SenderScheduled(log_ch)
    /\ LogSend(t)
    /\ UNCHANGED <<stock_ch, pcSim, produced>>
    /\ UNCHANGED <<preferences, backlogged, marketVars>>

\* process_stock_update: neither threshold is reached, the task ends
BrokerFinish(t) ==
    /\ t.pc = "liquidation"
    /\ LiquidationKind(t.broker, t.stock) = "none"
    /\ tasks' = tasks \ {t}
    /\ UNCHANGED <<stock_ch, log_ch, pcSim, produced, log_waiters, position,
                   lastUpdate>>
    /\ UNCHANGED <<preferences, backlogged, marketVars>>

\* main: log_rx.recv().await yields a message, println!  The slot it frees goes to the
\* task that has waited longest, whose send completes.
LogRecv ==
    /\ log_ch # <<>> /\ ReceiverScheduled(log_ch)
    /\ IF log_waiters = <<>>
       THEN /\ log_ch' = Tail(log_ch)
            /\ UNCHANGED <<tasks, log_waiters, position, lastUpdate>>
       ELSE LET w == Head(log_waiters) IN
            /\ log_ch' = Append(Tail(log_ch), PendingMessage(w))
            /\ log_waiters' = Tail(log_waiters)
            /\ tasks' = (tasks \ {w}) \cup AfterSend(w)
            /\ lastUpdate' = [lastUpdate EXCEPT ![w.broker][w.stock.id] = w.stock.update]
            /\ position' = PositionAfter(position, PendingMessage(w))
    /\ UNCHANGED <<stock_ch, pcSim, produced>>
    /\ UNCHANGED <<preferences, backlogged, marketVars>>

BrokerNext ==
    \/ SimSend
    \/ SimWake
    \/ ReceiverSpawn
    \/ \E t \in tasks : BrokerIgnore(t)
    \/ \E t \in tasks : BrokerEntry(t)
    \/ \E t \in tasks : BrokerLiquidate(t)
    \/ \E t \in tasks : BrokerFinish(t)
    \/ LogRecv

BrokerSpec == BrokerInit /\ [][BrokerNext]_vars

\* C10: for one broker and one instrument, the messages for an earlier update never
\* come after the messages for a later update on the outbound channel.
C10_UpdateOrder ==
    [][\A b \in Brokers : \A id \in DOMAIN lastUpdate[b] :
          lastUpdate'[b][id] >= lastUpdate[b][id]]_vars

-----------------------------------------------------------------------------
(* The decision rules of process_stock_update, applied to the preferences of  *)
(* main and to preferences whose two liquidation thresholds meet.             *)

\* preferences of a broker whose profit target and stop-loss limit are the same price
CrossedPreferences ==
    [Preferences EXCEPT !["B1"].target_profit = 3000, !["B1"].stop_loss_limit = 3000]

DecisionInit == \E p \in {Preferences, CrossedPreferences} : BrokerStart(p)

DecisionSpec == DecisionInit /\ [][BrokerNext]_vars

ProfitTake == "Reached target profit, selling"

StopLoss == "Reached stop loss limit, selling"

\* the step in which task t leaves its place puts message m on log_tx: at once, or
\* after the task was suspended; or it suspends the task because the channel is full
Emits(t, m) ==
    IF t.pc \in {"entry_wait", "liquidation_wait"}
    THEN log_ch' = Append(Tail(log_ch), m)
    ELSE IF Len(log_ch) < Capacity
         THEN log_ch' = Append(log_ch, m)
         ELSE /\ log_ch' = log_ch
              /\ \E u \in tasks' :
                    /\ u.broker = t.broker /\ u.stock = t.stock
                    /\ u.pc \in {"entry_wait", "liquidation_wait"}
                    /\ log_waiters' = Append(log_waiters, u)

\* C11: for one update a broker sends at most one liquidation message, never both a
\* profit-take and a stop-loss, and when the price is at or above target_profit and at
\* or below stop_loss_limit the one it sends is the profit-take.
C11_OneLiquidation ==
    /\ [](\A i \in 1..Len(log_ch) :
            LET m == log_ch[i]
                p == preferences[m.broker]
            IN  /\ m.kind = ProfitTake => m.price >= p.target_profit
                /\ m.kind = StopLoss =>
                       m.price <= p.stop_loss_limit /\ m.price < p.target_profit)
    /\ [][\A t \in tasks :
            (t.pc \in {"liquidation", "liquidation_wait"} /\ t \notin tasks') =>
                LET p == preferences[t.broker] IN
                /\ \A u \in tasks' :
                       (u.broker = t.broker /\ u.stock.update = t.stock.update) =>
                           (t.pc = "liquidation" /\ u.pc = "liquidation_wait")
                /\ IF t.stock.price >= p.target_profit
                   THEN Emits(t, Message(t.broker, t.stock, ProfitTake, 0))
                   ELSE IF t.stock.price <= p.stop_loss_limit
                        THEN Emits(t, Message(t.broker, t.stock, StopLoss, 0))
                        ELSE log_ch' = log_ch]_vars

\* a broker whose thresholds both hold at the price of the update has sent the
\* profit-take message, and its task has ended
C11_Witness ==
    \E i \in 1..Len(log_ch) :
        /\ log_ch[i].kind = ProfitTake
        /\ log_ch[i].price <= preferences[log_ch[i].broker].stop_loss_limit
        /\ \A t \in tasks : t.broker # log_ch[i].broker

\* min_price <= price <= max_price of broker b
InBand(b, price) ==
    preferences[b].min_price <= price /\ price <= preferences[b].max_price

\* C12: for every update on an instrument in its interest set a broker sends a buy
\* order exactly when min_price <= price <= max_price, both bounds included, and the
\* order is for order_amount units.
C12_EntryRule ==
    /\ [](\A i \in 1..Len(log_ch) :
            LET m == log_ch[i] IN
            /\ m.kind = "Placing order" =>
                  /\ InBand(m.broker, m.price)
                  /\ m.amount = preferences[m.broker].order_amount
                  /\ m.stock_id \in preferences[m.broker].interested_stocks
            /\ m.kind = "No action" => ~InBand(m.broker, m.price))
    /\ [][\A t \in tasks :
            (/\ t.pc \in {"start", "entry_wait"} /\ t \notin tasks'
             /\ t.stock.id \in preferences[t.broker].interested_stocks) =>
                Emits(t,
                    [broker |-> t.broker, stock_id |-> t.stock.id,
                     price |-> t.stock.price,
                     kind |-> IF InBand(t.broker, t.stock.price)
                              THEN "Placing order" ELSE "No action",
                     amount |-> IF InBand(t.broker, t.stock.price)
                                THEN preferences[t.broker].order_amount ELSE 0])]_vars

\* a buy order for order_amount units at a price equal to max_price is on the outbound
\* channel
C12_Witness ==
    \E i \in 1..Len(log_ch) :
        /\ log_ch[i].kind = "Placing order"
        /\ log_ch[i].price = preferences[log_ch[i].broker].max_price
        /\ log_ch[i].amount = preferences[log_ch[i].broker].order_amount

-----------------------------------------------------------------------------
(* The channels of brokers.rs under load.  The backlogged start is the state  *)
(* main reaches when simulate_stock_updates has sent 2 * (Capacity - 1)       *)
(* updates, the first Capacity - 1 of them have been evaluated with one        *)
(* message each that main has not received yet, and the others wait in the    *)
(* update channel.                                                            *)

\* the i-th message on log_tx in that run: per round B1 on AAPL, B1 on GOOGL, B2 on
\* GOOGL, each a buy order
BackloggedMessage(i) ==
    LET b == IF i % 3 = 0 THEN "B2" ELSE "B1"
        n == IF i % 3 = 1 THEN i ELSE IF i % 3 = 2 THEN i ELSE i - 1
    IN  Message(b, BackloggedStock(n), "Placing order", Preferences[b].order_amount)

BackloggedInit ==
    /\ stocks = NoTable
    /\ overflowChecks = FALSE
    /\ held = NoHeld
    /\ history = <<>>
    /\ marketOwner = "none"
    /\ chanOwner = "none"
    /\ pcPrice = "lock_market"
    /\ pcConsumer = "lock_market"
    /\ actionQueue = <<>>
    /\ delivered = 0
    /\ streamOpen = TRUE
    /\ taken = <<>>
    /\ applied = <<>>
    /\ response = NoResponse
    /\ responses = <<>>
    /\ lastTable = NoTable
    /\ ticks = 0
    /\ stock_ch = [i \in 1..(Capacity - 1) |-> BackloggedStock(Capacity - 1 + i)]
    /\ log_ch = [i \in 1..(Capacity - 1) |-> BackloggedMessage(i)]
    /\ pcSim = (BackloggedUpdates % Len(stock_ids)) + 1
    /\ produced = BackloggedUpdates
    /\ tasks = {}
    /\ preferences = Preferences
    /\ log_waiters = <<>>
    /\ backlogged = TRUE
    /\ position = [b \in Brokers |-> [id \in DOMAIN NoPosition[b] |->
                      Cardinality({i \in 1..(Capacity - 1) :
                                      /\ BackloggedMessage(i).broker = b
                                      /\ BackloggedMessage(i).stock_id = id})
                        * Preferences[b].order_amount]]
    /\ lastUpdate = [NoUpdate EXCEPT !["B1"]["AAPL"] = Capacity - 1,
                                     !["B1"]["GOOGL"] = Capacity - 3,
                                     !["B2"]["GOOGL"] = Capacity - 3]

\* the runs from the start of main and the runs from the backlogged start
ChannelSpec == (BrokerInit \/ BackloggedInit) /\ [][BrokerNext]_vars

\* queue q2 is queue q after at most one receive at its head and at most one send at
\* its tail
QueueStep(q, q2) ==
    \E k \in {0, 1}, j \in {0, 1} :
        /\ k <= Len(q)
        /\ Len(q2) = Len(q) - k + j
        /\ \A i \in 1..(Len(q) - k) : q2[i] = q[i + k]

\* task t is about to send on log_tx
AboutToSend(t) ==
    \/ t.pc = "start" /\ t.stock.id \in preferences[t.broker].interested_stocks
    \/ /\ t.pc = "liquidation"
       /\ \/ t.stock.price >= preferences[t.broker].target_profit
          \/ t.stock.price <= preferences[t.broker].stop_loss_limit

-----------------------------------------------------------------------------
(* The error arms of the consumer loop of consume_actions *)

\* the step takes from the queue a delivery of the given kind
Takes(kind) ==
    /\ pcConsumer = "next" /\ actionQueue # <<>>
    /\ Len(taken') = Len(taken) + 1
    /\ Head(actionQueue).kind = kind

\* C14: a delivery whose payload does not deserialize is discarded: the registry is
\* not changed, no response is produced for it, and the consumer loop goes on to the
\* next delivery.
C14_MalformedDiscarded ==
    /\ [][Takes("malformed") =>
            /\ stocks' = stocks /\ held' = held
            /\ response' = response /\ responses' = responses
            /\ applied' = applied
            /\ actionQueue' = Tail(actionQueue)
            /\ pcConsumer' = "next"
            /\ marketOwner' = marketOwner /\ chanOwner' = chanOwner]_vars
    /\ [](\A i \in 1..Len(taken) :
            taken[i].kind = "malformed" =>
                AppliedAt(taken[i].tag) = {} /\ RespondedAt(taken[i].tag) = {})

\* the consumer has taken a malformed delivery and, after it, an action that it has
\* applied
C14_Witness ==
    \E i \in 1..Len(taken) :
        /\ taken[i].kind = "malformed"
        /\ i + 1 \in 1..Len(taken)
        /\ taken[i + 1].kind = "action"
        /\ AppliedAt(taken[i + 1].tag) # {}

\* C15: a transport error on the action stream ends the consumer loop: the delivery
\* that is the error is the last one taken, and the task has exited.
C15_ErrorEndsLoop ==
    \A i \in 1..Len(taken) :
        taken[i].kind = "error" => (i = Len(taken) /\ pcConsumer = "done")

-----------------------------------------------------------------------------
(* Updates outside the interest set *)

\* C16: a broker that gets an update on a stock outside its interested_stocks sends
\* nothing on the outbound channel and changes no state: its task ends at once.
C16_IgnoresOthers ==
    /\ [](\A i \in 1..Len(log_ch) :
            log_ch[i].stock_id \in preferences[log_ch[i].broker].interested_stocks)
    /\ [](\A b \in Brokers : \A id \in DOMAIN lastUpdate[b] :
            id \notin preferences[b].interested_stocks => lastUpdate[b][id] = 0)
    /\ [](\A t \in tasks :
            t.stock.id \notin preferences[t.broker].interested_stocks => t.pc = "start")
    /\ [][\A t \in tasks :
            (t.stock.id \notin preferences[t.broker].interested_stocks
             /\ t \notin tasks') =>
                /\ log_ch' = log_ch /\ log_waiters' = log_waiters
                /\ lastUpdate' = lastUpdate /\ preferences' = preferences
                /\ position' = position
                /\ tasks' = tasks \ {t}]_vars

\* three updates, the one on AMZN among them, have been evaluated by both brokers, and
\* no broker has sent a message on a stock outside its interest set
C16_Witness ==
    /\ produced >= Len(stock_ids) /\ stock_ch = <<>> /\ tasks = {}
    /\ lastUpdate["B1"]["AAPL"] > 0
    /\ lastUpdate["B1"]["AMZN"] = 0 /\ lastUpdate["B2"]["AAPL"] = 0
    /\ lastUpdate["B2"]["AMZN"] = 0

-----------------------------------------------------------------------------
(* Prices of the registry *)

\* C17: in every reachable state, the initial registry included, buy_price is
\* sell_price times a markup of at least 1.0, so buy_price >= sell_price for every
\* stock.
C17_Markup ==
    \A id \in StockIds : stocks[id].buy_price >= stocks[id].sell_price

-----------------------------------------------------------------------------
(* Round trip *)

\* call i of the ledger is a successful buy and call i + 1 the sell of the same
\* quantity of the same stock
BuyThenSell(i) ==
    /\ i \in Calls /\ i + 1 \in Calls
    /\ history[i].tx.action = "buy" /\ history[i].tx.id \in StockIds
    /\ history[i].response.kind = "Buy successful"
    /\ history[i + 1].tx = [history[i].tx EXCEPT !.action = "sell"]

\* C18: a successful buy of q units followed at once by a sell of q units of the same
\* stock is accepted and returns the inventory to exactly its state before the buy.
C18_RoundTrip ==
    \A i \in Calls :
        BuyThenSell(i) =>
            /\ history[i + 1].response.kind = "Sell successful"
            /\ history[i + 1].response.stock
                  = history[i].before[history[i].tx.id].available_stock
            /\ history[i + 1].after = history[i].before
            /\ history[i + 1].heldAfter = history[i].heldBefore

\* a buy that changed available_stock was followed by the sell of the same quantity
C18_Witness ==
    \E i \in Calls :
        /\ BuyThenSell(i)
        /\ history[i].after # history[i].before
        /\ history[i].tx.quantity = U32(10)

-----------------------------------------------------------------------------
(* Liquidation and the broker's position *)

\* C19: a liquidation sell is for exactly the units the broker holds of the stock, and
\* a broker that holds none sends no sell.
C19_SellsWhatItHolds ==
    [][(/\ log_ch' # <<>>
        /\ \/ Len(log_ch') = Len(log_ch) + 1
           \/ Len(log_waiters') < Len(log_waiters)) =>
            LET m == log_ch'[Len(log_ch')] IN
            m.kind \in {ProfitTake, StopLoss} =>
                /\ position[m.broker][m.stock_id] > 0
                /\ m.amount = position[m.broker][m.stock_id]]_vars

-----------------------------------------------------------------------------
(* Backpressure from the outbound channel to the update producer *)

\* C20: backpressure reaches the update producer: while the outbound channel is full
\* and an evaluation is suspended on it, no further update is taken from the update
\* channel, so the updates taken and not yet evaluated stay bounded and the update
\* channel fills up behind them.
C20_BackpressureReachesProducer ==
    [][(Len(log_ch) = Capacity /\ log_waiters # <<>>) =>
          /\ ~(stock_ch # <<>> /\ stock_ch' = Tail(stock_ch))
          /\ {t.stock.update : t \in tasks'} \subseteq {t.stock.update : t \in tasks}]_vars

-----------------------------------------------------------------------------
(* The range of available_stock *)

\* C21: the u32 counter available_stock never overflows: no call of
\* process_transaction panics on arithmetic, and every applied buy or sell leaves
\* exactly before - quantity or before + quantity, a value within 0..2^32-1, with no
\* wrap-around.
C21_NoOverflow ==
    \A i \in Calls :
        LET c == history[i] IN
        /\ c.response # Panicked
        /\ \A id \in StockIds :
              /\ c.after[id].available_stock[1] \in 0..(Half - 1)
              /\ c.after[id].available_stock[2] \in 0..(Half - 1)
        /\ (c.tx.id \in StockIds /\ c.response.kind = "Sell successful") =>
              /\ Plus(c.before[c.tx.id].available_stock, c.tx.quantity)[1] < Half
              /\ c.after[c.tx.id].available_stock
                    = Plus(c.before[c.tx.id].available_stock, c.tx.quantity)
        /\ (c.tx.id \in StockIds /\ c.response.kind = "Buy successful") =>
              /\ Geq(c.before[c.tx.id].available_stock, c.tx.quantity)
              /\ Plus(c.after[c.tx.id].available_stock, c.tx.quantity)
                    = c.before[c.tx.id].available_stock

====
